---- MODULE Spec2Model ----
(***************************************************************************)
(* GetSuite: a mock NetSuite record API (FastAPI handlers over two SQLite  *)
(* tables through SQLAlchemy sessions).                                    *)
(*                                                                         *)
(* State: the two tables of netsuite_mock.db, the wall clock, the          *)
(* position and ORM object of every create_customer request in flight,     *)
(* and the last response sent.  Every db.commit() / db.refresh() of        *)
(* create_customer is a step of its own, because each is a transaction of  *)
(* its own and requests run on a thread pool; the other handlers are one   *)
(* query followed by one commit and are taken as one step each.            *)
(***************************************************************************)
EXTENDS Integers, FiniteSets, Sequences, TLC

\* ---- bounds of the model -------------------------------------------------
MaxId == 2          \* largest primary key the store hands out
MaxWorkers == 2     \* create_customer requests that can be in flight
MaxRequests == 3    \* requests accepted in one run
MaxClock == 1       \* the clock runs over 0..MaxClock
TicksPerDay == 2    \* clock ticks per calendar day

Workers == 1..MaxWorkers
Ids == 1..MaxId
RequestIds == 1..(MaxId + 1)   \* ids a client may name, one of them never assigned

None == "None"      \* Python's None / SQL NULL

VARIABLES
    customers,      \* the rows of table "customers"
    sales_orders,   \* the rows of table "sales_orders"
    now,            \* the wall clock
    session,        \* per worker thread: the create_customer request it runs
    response,       \* the last response sent, numbered
    history         \* the customers at start-up, the customer ids deleted, the
                    \* ids and the number of the 201 responses of create_customer

vars == <<customers, sales_orders, now, session, response, history>>

\* ---- time.strftime --------------------------------------------------------
\* time.strftime("%Y-%m-%dT%H:%M:%SZ"): date and time of day, second precision
strftime_datetime(t) ==
    ToString(t \div TicksPerDay) \o "T" \o ToString(t % TicksPerDay) \o "Z"

\* time.strftime("%Y-%m-%d"): the date alone
strftime_date(t) == ToString(t \div TicksPerDay)

\* ---- pydantic schemas -----------------------------------------------------
\* A request body is the record of the fields the client set explicitly.
CustomerBase == [status |-> "Active"]
SalesOrderBase == [status |-> "Pending Fulfillment", trandate |-> None]

\* model_dump(): every field, the schema default where the client set none
model_dump(defaults, payload) ==
    [f \in (DOMAIN defaults) \cup (DOMAIN payload) |->
        IF f \in DOMAIN payload THEN payload[f] ELSE defaults[f]]

\* model_dump(exclude_unset=True): only the fields the client set
model_dump_exclude_unset(payload) == payload

\* f(**dumped, k=v): Python raises TypeError when a keyword is given twice
KeywordCollision(dumped, explicit) ==
    (DOMAIN dumped) \cap (DOMAIN explicit) # {}

\* request bodies the clients send
CustomerPayloads ==
    { [companyName |-> "Acme", email |-> "a@acme.com"],
      [companyName |-> "Globex", email |-> "g@globex.com", status |-> "Inactive"] }

SalesOrderPayloads ==
    { [entity |-> e, total |-> 99] : e \in RequestIds } \cup
    { [entity |-> 1, total |-> 10, status |-> "Paid", trandate |-> "2020-01-01"] }

\* bodies sent to PUT salesorder: the same schema, the entity fixed
SalesOrderUpdates == { o \in SalesOrderPayloads : o.entity = 1 }

\* ---- the store ------------------------------------------------------------
\* f"CUST-{id}" and f"SO-{id}"
CustId(id) == "CUST-" \o ToString(id)
TranId(id) == "SO-" \o ToString(id)

RowIds(table) == { r.id : r \in table }
RowById(table, id) == CHOOSE r \in table : r.id = id

\* INTEGER PRIMARY KEY without AUTOINCREMENT: one more than the largest rowid
\* in the table, so the id of a deleted last row is handed out again
NextRowid(table) ==
    IF table = {} THEN 1
    ELSE (CHOOSE m \in RowIds(table) : \A i \in RowIds(table) : i <= m) + 1

\* unique=True on entityId / tranId: would writing value `v` into row `id`
\* collide with another row?  (NULLs never collide.)
UniqueViolation(table, col, id, v) ==
    v # None /\ \E r \in table : r.id # id /\ r[col] = v

\* Rows netsuite_mock.db may hold when the process starts: the file outlives
\* the process and create_all() leaves existing tables alone.
SeedCustomer ==
    [id |-> 1, entityId |-> CustId(1), companyName |-> "Acme",
     email |-> "a@acme.com", status |-> "Active",
     dateCreated |-> strftime_datetime(0), lastUpdated |-> None]

SeedOrder(id) ==
    [id |-> id, tranId |-> TranId(id), entity |-> id, total |-> 99,
     status |-> "Pending Fulfillment", trandate |-> strftime_date(0),
     lastUpdated |-> None]

\* netsuite_mock.db at start-up: a fresh file, or one that holds records
EmptyStore == <<{}, {}>>
SeededStore == <<{SeedCustomer}, {SeedOrder(1), SeedOrder(2)}>>

\* ---- sessions and responses ----------------------------------------------
\* pc: the handler's position; id, entityId: the attributes of db_customer the
\* handler goes on to use (the identity key and the loaded entityId)
Idle == [pc |-> "idle", id |-> 0, entityId |-> None]

NoPayload == [none |-> None]

Response(n, op, id, payload, code, body, detail) ==
    [n |-> n, op |-> op, id |-> id, payload |-> payload,
     code |-> code, body |-> body, detail |-> detail]

InFlight == Cardinality({ w \in Workers : session[w].pc # "idle" })

\* a new request is accepted
Accepting == response.n + InFlight < MaxRequests

Init ==
    /\ \E store \in { EmptyStore, SeededStore } :
          customers = store[1] /\ sales_orders = store[2]
    /\ now = 0
    /\ session = [w \in Workers |-> Idle]
    /\ response = Response(0, "none", 0, NoPayload, 0, {}, "")
    /\ history = [initial |-> customers, deleted |-> {}, created |-> {}, returned |-> 0]

Tick ==
    /\ now < MaxClock
    /\ now' = now + 1
    /\ UNCHANGED <<customers, sales_orders, session, response, history>>

Reply(op, id, payload, code, body, detail) ==
    response' = Response(response.n + 1, op, id, payload, code, body, detail)

\* ---- create_customer ------------------------------------------------------
\* lines 119-125: build the row with entityId "" and commit the INSERT; the
\* request runs on the first free thread of the pool
create_customer_insert(w, customer) ==
    LET dumped == model_dump(CustomerBase, customer)
        explicit == [dateCreated |-> strftime_datetime(now), entityId |-> ""]
        id == NextRowid(customers)
        row == dumped @@ explicit @@ [id |-> id, lastUpdated |-> None]
    IN  /\ session[w].pc = "idle"
        /\ \A v \in Workers : v < w => session[v].pc # "idle"
        /\ Accepting
        /\ id <= MaxId
        /\ IF KeywordCollision(dumped, explicit)
           THEN /\ Reply("create_customer", 0, customer, 500, {}, "TypeError")
                /\ UNCHANGED <<customers, session>>
           ELSE IF UniqueViolation(customers, "entityId", id, "")
           THEN /\ Reply("create_customer", 0, customer, 500, {}, "IntegrityError")
                /\ UNCHANGED <<customers, session>>
           ELSE /\ customers' = customers \cup {row}
                /\ session' = [session EXCEPT ![w] =
                                  [pc |-> "inserted", id |-> id, entityId |-> None]]
                /\ UNCHANGED response
        /\ UNCHANGED <<sales_orders, now, history>>

\* line 126: db.refresh() reads the row back by primary key
create_customer_refresh(w) ==
    LET id == session[w].id IN
    /\ session[w].pc = "inserted"
    /\ IF id \in RowIds(customers)
       THEN /\ session' = [session EXCEPT ![w] =
                  [pc |-> "refreshed", id |-> id,
                   entityId |-> RowById(customers, id).entityId]]
            /\ UNCHANGED response
       ELSE /\ session' = [session EXCEPT ![w] = Idle]
            /\ Reply("create_customer", id, NoPayload, 500, {}, "InvalidRequestError")
    /\ UNCHANGED <<customers, sales_orders, now, history>>

\* lines 129-130: set entityId from the id and commit the UPDATE; the unit of
\* work emits an UPDATE only when the attribute differs from the loaded value
create_customer_patch(w) ==
    LET id == session[w].id
        entityId == CustId(id)
    IN  /\ session[w].pc = "refreshed"
        /\ IF entityId = session[w].entityId
           THEN /\ session' = [session EXCEPT ![w].pc = "patched"]
                /\ UNCHANGED <<customers, response>>
           ELSE IF id \notin RowIds(customers)
           THEN /\ session' = [session EXCEPT ![w] = Idle]
                /\ Reply("create_customer", id, NoPayload, 500, {}, "StaleDataError")
                /\ UNCHANGED customers
           ELSE IF UniqueViolation(customers, "entityId", id, entityId)
           THEN /\ session' = [session EXCEPT ![w] = Idle]
                /\ Reply("create_customer", id, NoPayload, 500, {}, "IntegrityError")
                /\ UNCHANGED customers
           ELSE /\ customers' = { IF r.id = id THEN [r EXCEPT !.entityId = entityId]
                                  ELSE r : r \in customers }
                /\ session' = [session EXCEPT ![w].pc = "patched"]
                /\ UNCHANGED response
        /\ UNCHANGED <<sales_orders, now, history>>

\* lines 131-133: refresh once more and return what was read, with 201
create_customer_return(w) ==
    LET id == session[w].id IN
    /\ session[w].pc = "patched"
    /\ session' = [session EXCEPT ![w] = Idle]
    /\ IF id \in RowIds(customers)
       THEN /\ Reply("create_customer", id, NoPayload, 201,
                     {RowById(customers, id)}, "")
            /\ history' = [history EXCEPT !.created = @ \cup {id},
                                            !.returned = @ + 1]
       ELSE /\ Reply("create_customer", id, NoPayload, 500, {}, "InvalidRequestError")
            /\ UNCHANGED history
    /\ UNCHANGED <<customers, sales_orders, now>>

\* ---- the other customer handlers ------------------------------------------
\* .first() in place of .all(): at most one row is returned
get_customer_collection_first ==
    /\ Accepting
    /\ Reply("get_customer_collection", 0, NoPayload, 200,
             { r \in customers : r.id = 1 }, "")
    /\ UNCHANGED <<customers, sales_orders, now, session, history>>

\* lines 136-140: every row of the table
get_customer_collection ==
    /\ Accepting
    /\ Reply("get_customer_collection", 0, NoPayload, 200, customers, "")
    /\ UNCHANGED <<customers, sales_orders, now, session, history>>

\* lines 143-149
get_customer_by_id(customer_id) ==
    /\ Accepting
    /\ IF customer_id \notin RowIds(customers)
       THEN Reply("get_customer_by_id", customer_id, NoPayload, 404, {},
                  "Customer not found")
       ELSE Reply("get_customer_by_id", customer_id, NoPayload, 200,
                  {RowById(customers, customer_id)}, "")
    /\ UNCHANGED <<customers, sales_orders, now, session, history>>

\* the payload is dropped: no field of it reaches the row
ApplyUpdates_none(row, updates) == row

\* lines 164-165: setattr(customer, key, value) for every key of the dump
ApplyUpdates(row, updates) ==
    [c \in DOMAIN row |-> IF c \in DOMAIN updates THEN updates[c] ELSE row[c]]

\* lines 152-168
update_customer(customer_id, customer_update) ==
    /\ Accepting
    /\ IF customer_id \notin RowIds(customers)
       THEN /\ Reply("update_customer", customer_id, customer_update, 404, {},
                     "Customer not found")
            /\ UNCHANGED customers
       ELSE LET customer == RowById(customers, customer_id)
                held == [customer EXCEPT !.status = "On Hold",
                                         !.lastUpdated = strftime_datetime(now)]
                updated == ApplyUpdates(held,
                               model_dump_exclude_unset(customer_update))
            IN  /\ customers' = (customers \ {customer}) \cup {updated}
                /\ Reply("update_customer", customer_id, customer_update, 204, {}, "")
    /\ UNCHANGED <<sales_orders, now, session, history>>

\* the delete cascades to the sales orders of the customer
delete_customer_cascade(customer_id) ==
    /\ Accepting
    /\ IF customer_id \notin RowIds(customers)
       THEN /\ Reply("delete_customer", customer_id, NoPayload, 404, {},
                     "Customer not found")
            /\ UNCHANGED <<customers, sales_orders, history>>
       ELSE /\ customers' = customers \ {RowById(customers, customer_id)}
            /\ sales_orders' = { o \in sales_orders : o.entity # customer_id }
            /\ history' = [history EXCEPT !.deleted = @ \cup {customer_id}]
            /\ Reply("delete_customer", customer_id, NoPayload, 204, {}, "")
    /\ UNCHANGED <<now, session>>

\* lines 171-180
delete_customer(customer_id) ==
    /\ Accepting
    /\ IF customer_id \notin RowIds(customers)
       THEN /\ Reply("delete_customer", customer_id, NoPayload, 404, {},
                     "Customer not found")
            /\ UNCHANGED <<customers, history>>
       ELSE /\ customers' = customers \ {RowById(customers, customer_id)}
            /\ history' = [history EXCEPT !.deleted = @ \cup {customer_id}]
            /\ Reply("delete_customer", customer_id, NoPayload, 204, {}, "")
    /\ UNCHANGED <<sales_orders, now, session>>

\* ---- sales order handlers -------------------------------------------------
\* the detail of the 404s, which names no id
CustomerNotFoundDetail_generic(entity) == "Customer not found"

\* line 192: the detail of the 400
CustomerNotFoundDetail(entity) ==
    "Customer ID " \o ToString(entity) \o " not found. Cannot create Sales Order."

\* line 196: order.trandate or time.strftime("%Y-%m-%d")
TrandateOrToday(trandate, t) ==
    IF trandate = None \/ trandate = "" THEN strftime_date(t) ELSE trandate

\* lines 185-208.  The constructor call of lines 194-197 passes trandate both
\* inside **order.model_dump() and by name, so it raises before db.add(); the
\* insert, the tranId patch and the 201 of lines 199-208 follow it.
create_sales_order(order) ==
    LET dumped == model_dump(SalesOrderBase, order)
        explicit == [trandate |-> TrandateOrToday(dumped.trandate, now)]
        id == NextRowid(sales_orders)
        inserted == explicit @@ dumped @@
                    [id |-> id, tranId |-> None, lastUpdated |-> None]
        db_order == [inserted EXCEPT !.tranId = TranId(id)]
    IN  /\ Accepting
        /\ IF order.entity \notin RowIds(customers)
           THEN /\ Reply("create_sales_order", 0, order, 400, {},
                         CustomerNotFoundDetail(order.entity))
                /\ UNCHANGED sales_orders
           ELSE IF KeywordCollision(dumped, explicit)
           THEN /\ Reply("create_sales_order", 0, order, 500, {}, "TypeError")
                /\ UNCHANGED sales_orders
           ELSE IF UniqueViolation(sales_orders, "tranId", id, TranId(id))
           THEN /\ id <= MaxId
                /\ sales_orders' = sales_orders \cup {inserted}
                /\ Reply("create_sales_order", id, order, 500, {}, "IntegrityError")
           ELSE /\ id <= MaxId
                /\ sales_orders' = sales_orders \cup {db_order}
                /\ Reply("create_sales_order", id, order, 201, {db_order}, "")
        /\ UNCHANGED <<customers, now, session, history>>

\* the payload is applied after the side effect, as update_customer does
update_sales_order_applying(order_id, order_update) ==
    /\ Accepting
    /\ IF order_id \notin RowIds(sales_orders)
       THEN /\ Reply("update_sales_order", order_id, order_update, 404, {},
                     "Sales Order not found")
            /\ UNCHANGED sales_orders
       ELSE LET order == RowById(sales_orders, order_id)
                billed == [order EXCEPT !.status = "Billed",
                                        !.lastUpdated = strftime_datetime(now)]
                updated == ApplyUpdates(billed,
                               model_dump_exclude_unset(order_update))
            IN  /\ sales_orders' = (sales_orders \ {order}) \cup {updated}
                /\ Reply("update_sales_order", order_id, order_update, 204, {}, "")
    /\ UNCHANGED <<customers, now, session, history>>

\* lines 211-223
update_sales_order(order_id, order_update) ==
    /\ Accepting
    /\ IF order_id \notin RowIds(sales_orders)
       THEN /\ Reply("update_sales_order", order_id, order_update, 404, {},
                     "Sales Order not found")
            /\ UNCHANGED sales_orders
       ELSE LET order == RowById(sales_orders, order_id)
                billed == [order EXCEPT !.status = "Billed",
                                        !.lastUpdated = strftime_datetime(now)]
            IN  /\ sales_orders' = (sales_orders \ {order}) \cup {billed}
                /\ Reply("update_sales_order", order_id, order_update, 204, {}, "")
    /\ UNCHANGED <<customers, now, session, history>>

\* no existence check: a delete of an absent id answers 204
delete_sales_order_unchecked(order_id) ==
    /\ Accepting
    /\ sales_orders' = { o \in sales_orders : o.id # order_id }
    /\ Reply("delete_sales_order", order_id, NoPayload, 204, {}, "")
    /\ UNCHANGED <<customers, now, session, history>>

\* lines 226-235
delete_sales_order(order_id) ==
    /\ Accepting
    /\ IF order_id \notin RowIds(sales_orders)
       THEN /\ Reply("delete_sales_order", order_id, NoPayload, 404, {},
                     "Sales Order not found")
            /\ UNCHANGED sales_orders
       ELSE /\ sales_orders' = sales_orders \ {RowById(sales_orders, order_id)}
            /\ Reply("delete_sales_order", order_id, NoPayload, 204, {}, "")
    /\ UNCHANGED <<customers, now, session, history>>

Next ==
    \/ Tick
    \/ \E w \in Workers, c \in CustomerPayloads : create_customer_insert(w, c)
    \/ \E w \in Workers : create_customer_refresh(w)
    \/ \E w \in Workers : create_customer_patch(w)
    \/ \E w \in Workers : create_customer_return(w)
    \/ get_customer_collection
    \/ \E id \in RequestIds : get_customer_by_id(id)
    \/ \E id \in RequestIds, c \in CustomerPayloads : update_customer(id, c)
    \/ \E id \in RequestIds : delete_customer(id)
    \/ \E o \in SalesOrderPayloads : create_sales_order(o)
    \/ \E id \in RequestIds, o \in SalesOrderUpdates : update_sales_order(id, o)
    \/ \E id \in RequestIds : delete_sales_order(id)

Spec == Init /\ [][Next]_vars

\* ---- properties -----------------------------------------------------------
\* this step sends the response of a request to handler `op`
Completed(op) == response'.n = response.n + 1 /\ response'.op = op

Supplied(payload, field, default) ==
    IF field \in DOMAIN payload THEN payload[field] ELSE default

\* C1: a create sales order request naming an existing customer answers 201,
\* adds exactly one sales order, and returns tranId "SO-<id>", the supplied or
\* default status and the supplied trandate or today's date.
C1_CreateSalesOrderSucceeds ==
    [][ (Completed("create_sales_order")
         /\ response'.payload.entity \in RowIds(customers))
        => /\ response'.code = 201
           /\ Cardinality(sales_orders') = Cardinality(sales_orders) + 1
           /\ \E r \in response'.body :
                /\ response'.body = {r}
                /\ r \in sales_orders' \ sales_orders
                /\ r.tranId = "SO-" \o ToString(r.id)
                /\ r.status = Supplied(response'.payload, "status",
                                       "Pending Fulfillment")
                /\ r.trandate = Supplied(response'.payload, "trandate",
                                         strftime_date(now)) ]_vars

\* C2: every create customer request that returns a record returns entityId
\* "CUST-<id>" for the id the store assigned, and the stored row carries it.
C2_CreatedEntityIdDerived ==
    [][ (Completed("create_customer") /\ response'.code = 201)
        => \E r \in response'.body :
              /\ response'.body = {r}
              /\ r.id = response'.id
              /\ r.entityId = "CUST-" \o ToString(r.id)
              /\ r \in customers' ]_vars

\* C3: no response of List customers or Get customer carries a customer with
\* an empty entityId.
C3_EmptyEntityIdNeverObserved ==
    response.op \in {"get_customer_collection", "get_customer_by_id"}
        => \A r \in response.body : r.entityId # ""

\* C4: every create customer request completes with 201 and a record.
C4_CreateCustomerNeverFails ==
    response.op = "create_customer"
        => response.code = 201 /\ response.body # {}

\* C5: after an update customer on an existing id the customer's status is
\* the payload's status when the payload has one and "On Hold" when it has
\* none, whatever the status was before.
C5_UpdateCustomerStatus ==
    [][ (Completed("update_customer") /\ response'.code = 204)
        => /\ response'.id \in RowIds(customers)
           /\ \A r \in customers' :
                r.id = response'.id
                  => r.status = Supplied(response'.payload, "status", "On Hold")
      ]_vars

\* an update without a status has put a customer on hold
C5_Witness ==
    /\ response.op = "update_customer"
    /\ response.code = 204
    /\ "status" \notin DOMAIN response.payload
    /\ \E r \in customers : r.id = response.id /\ r.status = "On Hold"

\* C6: update sales order on an existing id leaves the order "Billed" whatever
\* the payload holds; its id, tranId, entity, total and trandate keep their
\* values, lastUpdated is the time of the update, and no other row of either
\* table changes.
C6_UpdateSalesOrderBillsOnly ==
    [][ (Completed("update_sales_order") /\ response'.code = 204)
        => \E old \in sales_orders, new \in sales_orders' :
              /\ old.id = response'.id
              /\ new.id = old.id
              /\ new.status = "Billed"
              /\ new.lastUpdated = strftime_datetime(now)
              /\ \A f \in {"tranId", "entity", "total", "trandate"} :
                    new[f] = old[f]
              /\ sales_orders' \ {new} = sales_orders \ {old}
              /\ customers' = customers ]_vars

\* an update whose payload asks for another status and total has billed an
\* order and left its total alone
C6_Witness ==
    /\ response.op = "update_sales_order"
    /\ response.code = 204
    /\ "status" \in DOMAIN response.payload
    /\ \E o \in sales_orders :
          /\ o.id = response.id
          /\ o.status = "Billed"
          /\ response.payload.status # "Billed"
          /\ o.total # response.payload.total
          /\ o.lastUpdated # None

\* C7: a create sales order request naming no existing customer answers 400
\* with a detail that names the id, and leaves both tables as they were.
C7_InvalidReferenceNoWrite ==
    [][ (Completed("create_sales_order")
         /\ response'.payload.entity \notin RowIds(customers))
        => /\ response'.code = 400
           /\ response'.detail =
                "Customer ID " \o ToString(response'.payload.entity)
                    \o " not found. Cannot create Sales Order."
           /\ customers' = customers
           /\ sales_orders' = sales_orders ]_vars

\* a sales order for a missing customer was refused while other customers exist
C7_Witness ==
    /\ response.op = "create_sales_order"
    /\ response.code = 400
    /\ customers # {}
    /\ response.payload.entity \notin RowIds(customers)

DeleteTable(op, c, o) == IF op = "delete_customer" THEN c ELSE o
DeleteOther(op, c, o) == IF op = "delete_customer" THEN o ELSE c

\* C8: for both resources a delete of an absent id answers 404 and changes
\* nothing, a delete of a present id removes that row and no other, and a get
\* customer (or a delete) of an id that is absent answers 404.
C8_DeleteThenNotFound ==
    [][ /\ \A op \in {"delete_customer", "delete_sales_order"} :
             Completed(op) =>
               LET before == DeleteTable(op, customers, sales_orders)
                   after == DeleteTable(op, customers', sales_orders')
               IN  /\ DeleteOther(op, customers, sales_orders)
                        = DeleteOther(op, customers', sales_orders')
                   /\ IF response'.id \in RowIds(before)
                      THEN /\ response'.code = 204
                           /\ after = { r \in before : r.id # response'.id }
                           /\ Cardinality(after) = Cardinality(before) - 1
                      ELSE /\ response'.code = 404
                           /\ after = before
        /\ Completed("get_customer_by_id") =>
              IF response'.id \in RowIds(customers)
              THEN response'.code = 200
              ELSE response'.code = 404 ]_vars

\* a get of a customer id that was deleted has answered 404
C8_Witness ==
    /\ response.op = "get_customer_by_id"
    /\ response.code = 404
    /\ response.id \in history.deleted

\* C9: from an empty customers table, with no delete and no create in flight,
\* list customers returns as many records as create customer requests have
\* returned, with pairwise distinct ids, the ids of the create responses.
C9_ListMatchesCreates ==
    ( /\ response.op = "get_customer_collection"
      /\ history.initial = {}
      /\ history.deleted = {}
      /\ InFlight = 0 )
    => /\ Cardinality(response.body) = history.returned
       /\ Cardinality(RowIds(response.body)) = Cardinality(response.body)
       /\ RowIds(response.body) = history.created

\* a list after two returned creates
C9_Witness ==
    /\ response.op = "get_customer_collection"
    /\ history.initial = {}
    /\ history.deleted = {}
    /\ InFlight = 0
    /\ history.returned = 2
    /\ Cardinality(response.body) = 2

\* C10: delete customer removes the targeted customer and nothing else: the
\* sales orders table is unchanged, the orders of the deleted customer
\* included.
C10_DeleteCustomerLeavesOrders ==
    [][ (Completed("delete_customer") /\ response'.code = 204)
        => /\ sales_orders' = sales_orders
           /\ response'.id \in RowIds(customers)
           /\ customers' = { r \in customers : r.id # response'.id } ]_vars

\* a customer was deleted and an order naming it is still there
C10_Witness ==
    /\ response.op = "delete_customer"
    /\ response.code = 204
    /\ response.id \notin RowIds(customers)
    /\ \E o \in sales_orders : o.entity = response.id
====
